---------------------------- MODULE Spec2Model ----------------------------
(***************************************************************************)
(* A model of md2pdf-plantuml.py: the Markdown -> PDF pipeline that        *)
(* extracts PlantUML blocks, renders them in a process pool, substitutes   *)
(* the images back, applies page breaks, escapes dollars and drives pandoc *)
(* through a list of font pairs.                                           *)
(*                                                                         *)
(* Text is modelled at character level: a Python str is a sequence of      *)
(* one-character strings, so substring tests, regex scans, strip() and     *)
(* splitlines() are computed character by character as the code does.      *)
(***************************************************************************)
EXTENDS Integers, Sequences, FiniteSets, TLC

(***************************************************************************)
(* Characters and string literals of the source.                           *)
(***************************************************************************)
NL == "\n"
CR == "\r"
BOM == "BOM"      \* the single character U+FEFF
BS == "\\"
BT == "BACKTICK"   \* the single character U+0060

UpperLetters == <<"A","B","C","D","E","F","G","H","I","J","K","L","M",
                  "N","O","P","Q","R","S","T","U","V","W","X","Y","Z">>
LowerLetters == <<"a","b","c","d","e","f","g","h","i","j","k","l","m",
                  "n","o","p","q","r","s","t","u","v","w","x","y","z">>
DigitChars == <<"0","1","2","3","4","5","6","7","8","9">>

Range(s) == {s[k] : k \in 1..Len(s)}

\* str.lower() on one character
LowerChar(c) ==
    IF \E k \in 1..26 : UpperLetters[k] = c
    THEN LowerLetters[CHOOSE k \in 1..26 : UpperLetters[k] = c]
    ELSE c

\* str.lower()
Lower(s) == [k \in 1..Len(s) |-> LowerChar(s[k])]

\* \w of the re module, on the characters of the model
IsWordChar(c) == c \in Range(UpperLetters) \cup Range(LowerLetters) \cup Range(DigitChars) \cup {"_"}

\* \s of the re module and the characters str.strip() removes
IsSpace(c) == c \in {" ", "\t", NL, CR}

\* s[i:] starts with pat (i is 1-based)
StartsWithAt(pat, s, i) ==
    /\ i >= 1
    /\ i + Len(pat) - 1 <= Len(s)
    /\ \A k \in 1..Len(pat) : s[i + k - 1] = pat[k]

\* the same under re.IGNORECASE, for a lower-case pattern
StartsWithAtCI(pat, s, i) == StartsWithAt(pat, Lower(s), i)

\* "pat in s"
Contains(pat, s) == \E i \in 1..(Len(s) + 1) : StartsWithAt(pat, s, i)

\* s.find(pat, i-1) + 1 for 1-based i: the first position >= i, or 0
FindFrom(pat, s, i) ==
    LET hits == {j \in i..(Len(s) + 1) : StartsWithAt(pat, s, j)}
    IN  IF hits = {} THEN 0 ELSE CHOOSE j \in hits : \A h \in hits : j <= h

\* s[i-1:j-1] for 1-based i and exclusive 1-based j
Slice(s, i, j) == IF j <= i THEN <<>> ELSE SubSeq(s, i, j - 1)

RECURSIVE Concat(_)
\* "".join(parts), joined by halves to keep the evaluation shallow
Concat(parts) ==
    IF parts = <<>> THEN <<>>
    ELSE IF Len(parts) = 1 THEN parts[1]
    ELSE LET h == Len(parts) \div 2
         IN  Concat(SubSeq(parts, 1, h)) \o Concat(SubSeq(parts, h + 1, Len(parts)))

\* str(i) for an ordinal below 10
Str(i) == <<DigitChars[i + 1]>>

S_startuml == <<"@","s","t","a","r","t","u","m","l">>
S_enduml == <<"@","e","n","d","u","m","l">>
S_plantuml == <<"p","l","a","n","t","u","m","l">>
S_fence == <<BT, BT, BT>>
S_closefence == <<NL, BT, BT, BT>>
S_dashes == <<"-","-","-">>
S_dots == <<".",".",".">>

(***************************************************************************)
(* ensure_wrapped                                                          *)
(***************************************************************************)
\* a faulty variant of ensure_wrapped: the closing marker is forgotten
ensure_wrapped_unclosed(code) ==
    LET low == Lower(code)
    IN  IF Contains(S_startuml, low) /\ Contains(S_enduml, low)
        THEN code
        ELSE S_startuml \o <<NL>> \o code

ensure_wrapped(code) ==
    LET low == Lower(code)
    IN  IF Contains(S_startuml, low) /\ Contains(S_enduml, low)
        THEN code
        ELSE S_startuml \o <<NL>> \o code \o <<NL>> \o S_enduml

(***************************************************************************)
(* find_uml_blocks: RE_FENCED and RE_STARTEND, finditer, sort by start.    *)
(* Spans are those of Python: 0-based start, exclusive end.               *)
(***************************************************************************)
NoMatch == [start |-> 0, end |-> 0, cstart |-> 0, cend |-> 0]

\* first position >= i holding a character that is not \s (Len(s)+1 if none)
SkipSpaces(s, i) ==
    LET stops == {j \in i..(Len(s) + 1) : j = Len(s) + 1 \/ ~IsSpace(s[j])}
    IN  CHOOSE j \in stops : \A h \in stops : j <= h

\* RE_FENCED.match at 1-based position i:
\*   (```\s*plantuml[^\n]*\n)(.*?)(\n```)   IGNORECASE | DOTALL
\* start/end are 1-based inclusive start and exclusive end of group 0,
\* cstart/cend those of group 2.
RE_FENCED_at(s, i) ==
    IF ~StartsWithAt(S_fence, s, i) THEN NoMatch
    ELSE LET p == SkipSpaces(s, i + 3)
         IN  IF ~StartsWithAtCI(S_plantuml, s, p) THEN NoMatch
             ELSE LET nl == FindFrom(<<NL>>, s, p + 8)
                  IN  IF nl = 0 THEN NoMatch
                      ELSE LET close == FindFrom(S_closefence, s, nl + 1)
                           IN  IF close = 0 THEN NoMatch
                               ELSE [start |-> i, end |-> close + 4,
                                     cstart |-> nl + 1, cend |-> close]

\* RE_STARTEND.match at 1-based position i:
\*   (@startuml\b.*?@enduml)   IGNORECASE | DOTALL
RE_STARTEND_at(s, i) ==
    IF ~StartsWithAtCI(S_startuml, s, i) THEN NoMatch
    ELSE IF i + 9 > Len(s) \/ IsWordChar(s[i + 9]) THEN NoMatch
    ELSE LET e == FindFrom(S_enduml, Lower(s), i + 9)
         IN  IF e = 0 THEN NoMatch
             ELSE [start |-> i, end |-> e + 7, cstart |-> i, cend |-> e + 7]

RECURSIVE FencedIter(_, _)
\* RE_FENCED.finditer from 1-based position pos
FencedIter(s, pos) ==
    LET hits == {i \in pos..Len(s) : RE_FENCED_at(s, i) # NoMatch}
    IN  IF hits = {} THEN <<>>
        ELSE LET i == CHOOSE j \in hits : \A h \in hits : j <= h
                 m == RE_FENCED_at(s, i)
             IN  <<[span |-> <<m.start - 1, m.end - 1>>,
                    original |-> Slice(s, m.start, m.end),
                    code |-> Slice(s, m.cstart, m.cend),
                    kind |-> "fenced"]>> \o FencedIter(s, m.end)

RECURSIVE StartEndIter(_, _)
\* RE_STARTEND.finditer from 1-based position pos
StartEndIter(s, pos) ==
    LET hits == {i \in pos..Len(s) : RE_STARTEND_at(s, i) # NoMatch}
    IN  IF hits = {} THEN <<>>
        ELSE LET i == CHOOSE j \in hits : \A h \in hits : j <= h
                 m == RE_STARTEND_at(s, i)
             IN  <<[span |-> <<m.start - 1, m.end - 1>>,
                    original |-> Slice(s, m.start, m.end),
                    code |-> Slice(s, m.start, m.end),
                    kind |-> "startend"]>> \o StartEndIter(s, m.end)

RECURSIVE SortByStart(_)
\* list.sort(key=span[0]): stable, the earliest of the least keys comes first
SortByStart(ms) ==
    IF ms = <<>> THEN <<>>
    ELSE LET k == CHOOSE a \in 1..Len(ms) :
                      \A b \in 1..Len(ms) :
                          \/ ms[a].span[1] < ms[b].span[1]
                          \/ (ms[a].span[1] = ms[b].span[1] /\ a <= b)
             rest == [j \in 1..(Len(ms) - 1) |-> IF j < k THEN ms[j] ELSE ms[j + 1]]
         IN  <<ms[k]>> \o SortByStart(rest)

find_uml_blocks(md) == SortByStart(FencedIter(md, 1) \o StartEndIter(md, 1))

(***************************************************************************)
(* escape_unescaped_dollars: re.sub(r"(?<!\\)\$", r"\\$", s)               *)
(***************************************************************************)
escape_unescaped_dollars(s) ==
    Concat([k \in 1..Len(s) |->
               IF s[k] = "$" /\ (k = 1 \/ s[k - 1] # BS)
               THEN <<BS, "$">>
               ELSE <<s[k]>>])

(***************************************************************************)
(* split_yaml_header and apply_page_breaks                                 *)
(***************************************************************************)
RECURSIVE LStripBom(_)
\* md_text.lstrip(U+FEFF)
LStripBom(s) == IF s # <<>> /\ Head(s) = BOM THEN LStripBom(Tail(s)) ELSE s

RECURSIVE SplitLines(_)
\* str.splitlines(keepends=True): a line ends at \n, \r or \r\n
SplitLines(s) ==
    IF s = <<>> THEN <<>>
    ELSE LET ends == {k \in 1..Len(s) : s[k] \in {NL, CR}}
         IN  IF ends = {} THEN <<s>>
             ELSE LET t == CHOOSE k \in ends : \A h \in ends : k <= h
                      e == IF s[t] = CR /\ t < Len(s) /\ s[t + 1] = NL THEN t + 1 ELSE t
                  IN  <<SubSeq(s, 1, e)>> \o SplitLines(SubSeq(s, e + 1, Len(s)))

RECURSIVE Strip(_)
\* str.strip()
Strip(s) ==
    IF s = <<>> THEN s
    ELSE IF IsSpace(s[1]) THEN Strip(Tail(s))
    ELSE IF IsSpace(s[Len(s)]) THEN Strip(SubSeq(s, 1, Len(s) - 1))
    ELSE s

\* line.strip() in ("---", "...")
IsClosingLine(line) == Strip(line) \in {S_dashes, S_dots}

\* text.startswith("---\n") or text.startswith("---\r\n")
OpensHeader(text) ==
    \/ StartsWithAt(S_dashes \o <<NL>>, text, 1)
    \/ StartsWithAt(S_dashes \o <<CR, NL>>, text, 1)

\* the pair (yaml_header, body) as a record
split_yaml_header(md_text) ==
    LET text == LStripBom(md_text)
        lines == SplitLines(text)
        closers == {k \in 2..Len(lines) : IsClosingLine(lines[k])}
    IN  IF OpensHeader(text) /\ closers # {}
        THEN LET k == CHOOSE c \in closers : \A h \in closers : c <= h
             IN  [yaml_header |-> S_dashes \o <<NL>>
                                   \o Concat(SubSeq(lines, 2, k - 1)) \o lines[k],
                  body |-> Concat(SubSeq(lines, k + 1, Len(lines)))]
        ELSE [yaml_header |-> <<>>, body |-> md_text]

\* first position >= i holding a character outside [ \t] (Len(s)+1 if none)
SkipBlanks(s, i) ==
    LET stops == {j \in i..(Len(s) + 1) : j = Len(s) + 1 \/ s[j] \notin {" ", "\t"}}
    IN  CHOOSE j \in stops : \A h \in stops : j <= h

\* RE_PAGEBREAK_LINE.match at 1-based i:  ^[ \t]*-{3}[ \t]*$  MULTILINE.
\* The exclusive end of the match, or 0.
RE_PAGEBREAK_LINE_at(s, i) ==
    IF ~(i = 1 \/ s[i - 1] = NL) THEN 0
    ELSE LET d == SkipBlanks(s, i)
         IN  IF ~StartsWithAt(S_dashes, s, d) THEN 0
             ELSE LET e == SkipBlanks(s, d + 3)
                  IN  IF e = Len(s) + 1 \/ s[e] = NL THEN e ELSE 0

\* the replacement template r"\n\\newpage\n" expanded
S_newpage == <<NL, BS, "n", "e", "w", "p", "a", "g", "e", NL>>

RECURSIVE SubPageBreaks(_, _)
\* RE_PAGEBREAK_LINE.sub(r"\n\\newpage\n", s), scanning from 1-based pos
SubPageBreaks(s, pos) ==
    LET hits == {i \in pos..Len(s) : RE_PAGEBREAK_LINE_at(s, i) # 0}
    IN  IF hits = {} THEN Slice(s, pos, Len(s) + 1)
        ELSE LET i == CHOOSE j \in hits : \A h \in hits : j <= h
             IN  Slice(s, pos, i) \o S_newpage
                     \o SubPageBreaks(s, RE_PAGEBREAK_LINE_at(s, i))

apply_page_breaks(md_text) ==
    LET sp == split_yaml_header(md_text)
    IN  sp.yaml_header \o SubPageBreaks(sp.body, 1)

(***************************************************************************)
(* Configuration (lines 10-17) and the pieces of process_uml and of the    *)
(* rewrite loop that build text.                                           *)
(***************************************************************************)
\* str(output_dir) on the Windows paths the script is configured with
S_output_dir == <<"F", ":", BS, "M", "D", "-", "P", "r", "o", "j", BS,
                  "d", "i", "a", "g", "r", "a", "m", "s">>

\* str(output_dir / f"diagram{i}.png")
png_file(i) == S_output_dir \o <<BS, "d", "i", "a", "g", "r", "a", "m">> \o Str(i)
                   \o <<".", "p", "n", "g">>

\* Path(info).as_posix(): backslash separators become slashes
as_posix(path) == [k \in 1..Len(path) |-> IF path[k] = BS THEN "/" ELSE path[k]]

S_img_open == <<"!", "[", "D", "i", "a", "g", "r", "a", "m", " ">>
S_img_mid == <<"]", "(">>
S_img_close == <<")", "{", " ", "w", "i", "d", "t", "h", "=", "1", "0", "0", "%", " ", "}">>
S_fail_open == <<"*", "*", "D", "i", "a", "g", "r", "a", "m", " ">>
S_fail_mid == <<" ", "f", "a", "i", "l", "e", "d", " ", "t", "o", " ",
                "g", "e", "n", "e", "r", "a", "t", "e">>
S_fail_close == <<"*", "*">>

\* a slot of the result list pool.map has not filled yet
Pending == [i |-> 0, success |-> FALSE, info |-> <<>>, raised |-> FALSE]

\* png_file.exists() for ordinal i, given the ordinals whose image is on disk
\* a faulty variant of TargetExists: the image is never looked for
TargetExists_unchecked(i, files) == FALSE

TargetExists(i, files) == i \in files

\* the except clause of process_uml: the exception becomes a failure result
\* a faulty variant of HandleException: the exception leaves the task
HandleException_reraise(i, e) == [i |-> i, success |-> FALSE, info |-> e, raised |-> TRUE]

HandleException(i, e) == [i |-> i, success |-> FALSE, info |-> e, raised |-> FALSE]

\* the replacement text of one (result, block) pair
Replacement(r) ==
    IF r.success
    THEN S_img_open \o Str(r.i) \o S_img_mid \o as_posix(r.info) \o S_img_close
    ELSE S_fail_open \o Str(r.i) \o S_fail_mid \o <<":", " ">> \o r.info \o S_fail_close

\* str.replace(old, new, 1)
ReplaceFirst(s, old, new) ==
    LET p == FindFrom(old, s, 1)
    IN  IF p = 0 THEN s
        ELSE Slice(s, 1, p) \o new \o Slice(s, p + Len(old), Len(s) + 1)

RECURSIVE RewriteFrom(_, _, _, _)
\* the loop over zip(results, blocks), from pair k on
RewriteFrom(text, rs, bs, k) ==
    IF k > Len(bs) \/ k > Len(rs) THEN text
    ELSE RewriteFrom(ReplaceFirst(text, bs[k].original, Replacement(rs[k])), rs, bs, k + 1)

(***************************************************************************)
(* run_pandoc_with_font_fallback: its data.                                *)
(***************************************************************************)
font_pairs == << <<"Times New Roman", "Consolas">>,
                 <<"Cambria", "Consolas">>,
                 <<"Calibri", "Consolas">>,
                 <<"Arial", "Consolas">>,
                 <<"Times New Roman", "Lucida Console">>,
                 <<"Times New Roman", "Courier New">>,
                 <<"Times New Roman", "Noto Sans Mono">>,
                 <<"Times New Roman", "DejaVu Sans Mono">> >>

\* the command line of the final attempt carries no -V font override
NoFonts == <<>>

NotFoundStatus == 127

\* not shutil.which(pandoc_exe)
\* a faulty variant of ConverterMissing: the lookup is never made
ConverterMissing_unchecked(onPath) == FALSE

ConverterMissing(onPath) == ~onPath

\* result.returncode == 0 and pdf_path.exists()
\* a faulty variant of AttemptSucceeded: the output file is not looked for
AttemptSucceeded_rc_only(r) == r.returncode = 0

AttemptSucceeded(r) == r.returncode = 0 /\ r.exists

(***************************************************************************)
(* Bounds of the model and the inputs drawn within them.                   *)
(***************************************************************************)
MaxFrags == 1
MaxExit == 1
MaxPre == 2
MaxWrapFrags == 2

ExitCodes == 0..MaxExit

\* a fenced block without markers, a fenced block holding a marked diagram,
\* a bare marked block, plain text with a dollar and a dash line, and a
\* document part holding a fenced block followed by a bare one
Frag_fenced == S_fence \o S_plantuml \o <<NL, "A", NL>> \o S_fence \o <<NL>>
Frag_nested == S_fence \o S_plantuml \o <<NL>> \o S_startuml \o <<NL, "B", NL>>
                   \o S_enduml \o <<NL>> \o S_fence \o <<NL>>
Frag_bare == S_startuml \o <<NL, "C", NL>> \o S_enduml \o <<NL>>
Frag_text == <<"$", NL, "-", "-", "-", NL>>
Frag_two == Frag_fenced \o Frag_bare
DocFrags == {Frag_fenced, Frag_nested, Frag_bare, Frag_text, Frag_two}

RECURSIVE Texts(_, _)
\* the concatenations of at most n fragments
Texts(frags, n) ==
    IF n = 0 THEN {<<>>}
    ELSE LET shorter == Texts(frags, n - 1)
         IN  shorter \cup {t \o f : t \in shorter, f \in frags}

Docs == Texts(DocFrags, MaxFrags)

\* what the renderer may write to stderr, and the text of a raised exception
Stderrs == {<<"E", NL>>}
ExcTexts == {<<"X">>}

(***************************************************************************)
(* State.                                                                  *)
(***************************************************************************)
VARIABLES
    pc,           \* where the main workflow (lines 218-280) stands
    md_file,      \* the content of the input Markdown file
    md_text,      \* the working document text
    blocks,       \* find_uml_blocks(md_text)
    results,      \* the list pool.map builds, one slot per block
    preexisting,  \* ordinals whose diagram<i>.png was on disk before the run
    pngFiles,     \* ordinals whose diagram<i>.png is on disk
    pumlFiles,    \* ordinal -> text written to diagram<i>.puml in this run
    launched,     \* ordinals for which a renderer process was launched
    temp_md,      \* the content written to the temporary Markdown file
    pandocOnPath, \* whether shutil.which finds the converter
    invocations,  \* the font settings of the converter runs so far, in order
    result,       \* the last converter run: return code, pdf_path.exists()
    rc,           \* what run_pandoc_with_font_fallback returned
    w_pc, w_code, w_once, w_twice,       \* ensure_wrapped applied twice
    h_pc, h_text, h_split, h_out,        \* the header split and the page breaks
    start_method, queue, wpc, wtask, wleft, holder, log_file
                  \* the pool workers at the grain of log_print

mainVars == <<pc, md_file, md_text, blocks, results, preexisting, pngFiles,
              pumlFiles, launched, temp_md, pandocOnPath, invocations, result, rc>>
wrapVars == <<w_pc, w_code, w_once, w_twice>>
hdrVars == <<h_pc, h_text, h_split, h_out>>
logVars == <<start_method, queue, wpc, wtask, wleft, holder, log_file>>
vars == <<mainVars, wrapVars, hdrVars, logVars>>

NoRun == [returncode |-> -1, exists |-> FALSE]
NoFile == <<"no file">>
total == Len(blocks)

MainOff ==
    /\ pc = "off" /\ md_file = <<>> /\ md_text = <<>> /\ blocks = <<>>
    /\ results = <<>> /\ preexisting = {} /\ pngFiles = {} /\ pumlFiles = <<>>
    /\ launched = {} /\ temp_md = NoFile /\ pandocOnPath = FALSE
    /\ invocations = <<>> /\ result = NoRun /\ rc = -1
WrapOff == w_pc = "off" /\ w_code = <<>> /\ w_once = <<>> /\ w_twice = <<>>
HdrOff == h_pc = "off" /\ h_text = <<>> /\ h_split = <<>> /\ h_out = <<>>
LogOff ==
    /\ start_method = "off" /\ queue = 0 /\ wpc = <<>> /\ wtask = <<>>
    /\ wleft = <<>> /\ holder = <<>> /\ log_file = <<>>

(***************************************************************************)
(* The main workflow, lines 218-280.                                       *)
(***************************************************************************)
MainInit ==
    /\ pc = "read"
    /\ md_file \in Docs
    /\ md_text = <<>>
    /\ blocks = <<>>
    /\ results = <<>>
    /\ preexisting \in SUBSET (1..MaxPre)
    /\ pngFiles = preexisting
    /\ pumlFiles = <<>>
    /\ launched = {}
    /\ temp_md = NoFile
    /\ pandocOnPath \in BOOLEAN
    /\ invocations = <<>>
    /\ result = NoRun
    /\ rc = -1

\* line 229
ReadMarkdown ==
    /\ pc = "read"
    /\ md_text' = md_file
    /\ pc' = "find"
    /\ UNCHANGED <<md_file, blocks, results, preexisting, pngFiles, pumlFiles,
                   launched, temp_md, pandocOnPath, invocations, result, rc>>
    /\ UNCHANGED <<wrapVars, hdrVars, logVars>>

\* lines 232-243: locate the blocks; with none the pool and the rewrite are skipped
FindBlocks ==
    /\ pc = "find"
    /\ blocks' = find_uml_blocks(md_text)
    /\ results' = [i \in 1..Len(blocks') |-> Pending]
    /\ pumlFiles' = [i \in 1..Len(blocks') |-> NoFile]
    /\ pc' = IF Len(blocks') = 0 THEN "pagebreaks" ELSE "pool"
    /\ UNCHANGED <<md_file, md_text, preexisting, pngFiles, launched, temp_md,
                   pandocOnPath, invocations, result, rc>>
    /\ UNCHANGED <<wrapVars, hdrVars, logVars>>

\* process_uml for ordinal i, lines 174-215, run by some worker of the pool.
\* The outcome of the file write and of the renderer is the environment's.
process_uml(i) ==
    /\ pc = "pool"
    /\ i \in 1..total
    /\ results[i] = Pending
    /\ IF TargetExists(i, pngFiles)
       THEN /\ results' = [results EXCEPT ![i] =
                              [i |-> i, success |-> TRUE, info |-> png_file(i), raised |-> FALSE]]
            /\ UNCHANGED <<pngFiles, pumlFiles, launched>>
       ELSE \/ \* puml_file.write_text raises
               \E e \in ExcTexts :
                   /\ results' = [results EXCEPT ![i] = HandleException(i, e)]
                   /\ UNCHANGED <<pngFiles, pumlFiles, launched>>
            \/ \* subprocess.run raises: no renderer process exists
               \E e \in ExcTexts :
                   /\ pumlFiles' = [pumlFiles EXCEPT ![i] = ensure_wrapped(blocks[i].code)]
                   /\ results' = [results EXCEPT ![i] = HandleException(i, e)]
                   /\ UNCHANGED <<pngFiles, launched>>
            \/ \* the renderer runs and exits
               \E code \in ExitCodes, err \in Stderrs :
                   /\ pumlFiles' = [pumlFiles EXCEPT ![i] = ensure_wrapped(blocks[i].code)]
                   /\ launched' = launched \cup {i}
                   /\ IF code # 0
                      THEN /\ results' = [results EXCEPT ![i] =
                                  [i |-> i, success |-> FALSE, info |-> Strip(err), raised |-> FALSE]]
                           /\ UNCHANGED pngFiles
                      ELSE /\ results' = [results EXCEPT ![i] =
                                  [i |-> i, success |-> TRUE, info |-> png_file(i), raised |-> FALSE]]
                           /\ pngFiles' = pngFiles \cup {i}
    /\ UNCHANGED <<pc, md_file, md_text, blocks, preexisting, temp_md,
                   pandocOnPath, invocations, result, rc>>
    /\ UNCHANGED <<wrapVars, hdrVars, logVars>>

\* lines 245-246: pool.map returns once every task has; an exception that left
\* a task is raised again here, in the main process
PoolJoin ==
    /\ pc = "pool"
    /\ \A i \in 1..total : results[i] # Pending
    /\ pc' = IF \E i \in 1..total : results[i].raised THEN "aborted" ELSE "rewrite"
    /\ UNCHANGED <<md_file, md_text, blocks, results, preexisting, pngFiles, pumlFiles,
                   launched, temp_md, pandocOnPath, invocations, result, rc>>
    /\ UNCHANGED <<wrapVars, hdrVars, logVars>>

\* lines 249-259
Rewrite ==
    /\ pc = "rewrite"
    /\ md_text' = RewriteFrom(md_text, results, blocks, 1)
    /\ pc' = "pagebreaks"
    /\ UNCHANGED <<md_file, blocks, results, preexisting, pngFiles, pumlFiles,
                   launched, temp_md, pandocOnPath, invocations, result, rc>>
    /\ UNCHANGED <<wrapVars, hdrVars, logVars>>

\* line 262
PageBreaks ==
    /\ pc = "pagebreaks"
    /\ md_text' = apply_page_breaks(md_text)
    /\ pc' = "save"
    /\ UNCHANGED <<md_file, blocks, results, preexisting, pngFiles, pumlFiles,
                   launched, temp_md, pandocOnPath, invocations, result, rc>>
    /\ UNCHANGED <<wrapVars, hdrVars, logVars>>

\* lines 266-267
SaveTemp ==
    /\ pc = "save"
    /\ temp_md' = escape_unescaped_dollars(md_text)
    /\ pc' = "which"
    /\ UNCHANGED <<md_file, md_text, blocks, results, preexisting, pngFiles, pumlFiles,
                   launched, pandocOnPath, invocations, result, rc>>
    /\ UNCHANGED <<wrapVars, hdrVars, logVars>>

\* lines 271 and 136-138: the driver is entered and looks the converter up
CheckConverter ==
    /\ pc = "which"
    /\ IF ConverterMissing(pandocOnPath)
       THEN rc' = NotFoundStatus /\ pc' = "report"
       ELSE rc' = rc /\ pc' = "fonts"
    /\ UNCHANGED <<md_file, md_text, blocks, results, preexisting, pngFiles, pumlFiles,
                   launched, temp_md, pandocOnPath, invocations, result>>
    /\ UNCHANGED <<wrapVars, hdrVars, logVars>>

\* lines 140-159: one turn of the loop over font_pairs
TryFonts ==
    /\ pc = "fonts"
    /\ LET k == Len(invocations) + 1
       IN  /\ k <= Len(font_pairs)
           /\ invocations' = Append(invocations, font_pairs[k])
           /\ \E code \in ExitCodes, there \in BOOLEAN :
                  /\ result' = [returncode |-> code, exists |-> there]
                  /\ IF AttemptSucceeded(result')
                     THEN rc' = 0 /\ pc' = "report"
                     ELSE rc' = rc /\ pc' = IF k = Len(font_pairs) THEN "fallback" ELSE "fonts"
    /\ UNCHANGED <<md_file, md_text, blocks, results, preexisting, pngFiles, pumlFiles,
                   launched, temp_md, pandocOnPath>>
    /\ UNCHANGED <<wrapVars, hdrVars, logVars>>

\* lines 161-171: the run with the defaults of the converter, whose code is returned
Fallback ==
    /\ pc = "fallback"
    /\ invocations' = Append(invocations, NoFonts)
    /\ \E code \in ExitCodes, there \in BOOLEAN :
           /\ result' = [returncode |-> code, exists |-> there]
           /\ rc' = code
    /\ pc' = "report"
    /\ UNCHANGED <<md_file, md_text, blocks, results, preexisting, pngFiles, pumlFiles,
                   launched, temp_md, pandocOnPath>>
    /\ UNCHANGED <<wrapVars, hdrVars, logVars>>

\* lines 273-280: the outcome is logged and the process ends
Report ==
    /\ pc = "report"
    /\ pc' = "done"
    /\ UNCHANGED <<md_file, md_text, blocks, results, preexisting, pngFiles, pumlFiles,
                   launched, temp_md, pandocOnPath, invocations, result, rc>>
    /\ UNCHANGED <<wrapVars, hdrVars, logVars>>

\* a step of the pool stage: a task runs, or map returns
PoolStep == (\E i \in 1..total : process_uml(i)) \/ PoolJoin

Init == MainInit /\ WrapOff /\ HdrOff /\ LogOff

Next ==
    \/ ReadMarkdown
    \/ FindBlocks
    \/ \E i \in 1..total : process_uml(i)
    \/ PoolJoin
    \/ Rewrite
    \/ PageBreaks
    \/ SaveTemp
    \/ CheckConverter
    \/ TryFonts
    \/ Fallback
    \/ Report

Spec == Init /\ [][Next]_vars

(***************************************************************************)
(* ensure_wrapped applied to a code text and to its own result.            *)
(***************************************************************************)
WrapFrags == {S_startuml, <<"@", "E", "N", "D", "U", "M", "L">>,
              <<"@", "S", "t", "a", "r", "t", "U", "m", "l", NL>>,
              S_enduml, <<"a">>, <<NL>>}
WrapCodes == Texts(WrapFrags, MaxWrapFrags)

WrapInit == w_pc = "in" /\ w_code \in WrapCodes /\ w_once = <<>> /\ w_twice = <<>>

WrapOnce ==
    /\ w_pc = "in"
    /\ w_once' = ensure_wrapped(w_code)
    /\ w_pc' = "once"
    /\ UNCHANGED <<w_code, w_twice, mainVars, hdrVars, logVars>>

WrapTwice ==
    /\ w_pc = "once"
    /\ w_twice' = ensure_wrapped(w_once)
    /\ w_pc' = "twice"
    /\ UNCHANGED <<w_code, w_once, mainVars, hdrVars, logVars>>

InitWrap == WrapInit /\ MainOff /\ HdrOff /\ LogOff

NextWrap == WrapOnce \/ WrapTwice

SpecWrap == InitWrap /\ [][NextWrap]_vars

(***************************************************************************)
(* split_yaml_header and apply_page_breaks applied to a document.          *)
(***************************************************************************)
MaxHdrFrags == 3
HdrFrags == {<<BOM>>, <<"-", "-", "-", NL>>, <<"-", "-", "-", CR, NL>>,
             <<"t", NL>>, <<"t", CR, NL>>, <<" ", "-", "-", "-", NL>>,
             <<".", ".", ".", NL>>}
HdrDocs == Texts(HdrFrags, MaxHdrFrags)

HdrInit == h_pc = "in" /\ h_text \in HdrDocs /\ h_split = <<>> /\ h_out = <<>>

SplitHeader ==
    /\ h_pc = "in"
    /\ h_split' = split_yaml_header(h_text)
    /\ h_pc' = "split"
    /\ UNCHANGED <<h_text, h_out, mainVars, wrapVars, logVars>>

ApplyPageBreaks ==
    /\ h_pc = "split"
    /\ h_out' = apply_page_breaks(h_text)
    /\ h_pc' = "done"
    /\ UNCHANGED <<h_text, h_split, mainVars, wrapVars, logVars>>

InitHeader == HdrInit /\ MainOff /\ WrapOff /\ LogOff

NextHeader == SplitHeader \/ ApplyPageBreaks

SpecHeader == InitHeader /\ [][NextHeader]_vars

(***************************************************************************)
(* The pool at the grain of log_print (lines 19-27, 240-246): NumProc     *)
(* worker processes take the tasks in order; a task calls log_print once   *)
(* when it skips or raises and two to four times when the renderer ran.    *)
(* Under the fork start method a worker inherits the log_lock the parent   *)
(* made at line 20; under spawn (the only start method on Windows, whose   *)
(* paths the script is configured with) a worker imports the module anew   *)
(* and line 20 makes a lock of its own.                                    *)
(***************************************************************************)
NumProc == 2
MaxTasks == 2
Workers == 1..NumProc
StartMethods == {"fork", "spawn"}

\* the lock object the name log_lock denotes in worker w
LockOf(w) == IF start_method = "fork" THEN 0 ELSE w

\* the number of log_print calls of one process_uml run
LogCalls == 1..4

LogInit ==
    /\ start_method \in StartMethods
    /\ queue = 1
    /\ wpc = [w \in Workers |-> "idle"]
    /\ wtask = [w \in Workers |-> 0]
    /\ wleft = [w \in Workers |-> 0]
    /\ holder = [l \in 0..NumProc |-> 0]
    /\ log_file = <<>>

\* a free worker takes the next task and runs process_uml up to its first log_print
TakeTask(w) ==
    /\ start_method \in StartMethods
    /\ wpc[w] = "idle"
    /\ queue <= MaxTasks
    /\ wtask' = [wtask EXCEPT ![w] = queue]
    /\ queue' = queue + 1
    /\ \E n \in LogCalls : wleft' = [wleft EXCEPT ![w] = n]
    /\ wpc' = [wpc EXCEPT ![w] = "acquire"]
    /\ UNCHANGED <<start_method, holder, log_file, mainVars, wrapVars, hdrVars>>

\* line 24: with log_lock
LogAcquire(w) ==
    /\ wpc[w] = "acquire"
    /\ holder[LockOf(w)] = 0
    /\ holder' = [holder EXCEPT ![LockOf(w)] = w]
    /\ wpc' = [wpc EXCEPT ![w] = "print"]
    /\ UNCHANGED <<start_method, queue, wtask, wleft, log_file, mainVars, wrapVars, hdrVars>>

\* line 25: print(message)
LogPrint(w) ==
    /\ wpc[w] = "print"
    /\ wpc' = [wpc EXCEPT ![w] = "append"]
    /\ UNCHANGED <<start_method, queue, wtask, wleft, holder, log_file,
                   mainVars, wrapVars, hdrVars>>

\* lines 26-27: the message is appended to the log file
LogAppend(w) ==
    /\ wpc[w] = "append"
    /\ log_file' = Append(log_file, wtask[w])
    /\ wpc' = [wpc EXCEPT ![w] = "release"]
    /\ UNCHANGED <<start_method, queue, wtask, wleft, holder, mainVars, wrapVars, hdrVars>>

\* the end of the with block; the task returns after its last log_print
LogRelease(w) ==
    /\ wpc[w] = "release"
    /\ holder' = [holder EXCEPT ![LockOf(w)] = 0]
    /\ wleft' = [wleft EXCEPT ![w] = wleft[w] - 1]
    /\ wpc' = [wpc EXCEPT ![w] = IF wleft[w] = 1 THEN "idle" ELSE "acquire"]
    /\ UNCHANGED <<start_method, queue, wtask, log_file, mainVars, wrapVars, hdrVars>>

LogNext ==
    \E w \in Workers :
        \/ TakeTask(w)
        \/ LogAcquire(w)
        \/ LogPrint(w)
        \/ LogAppend(w)
        \/ LogRelease(w)

InitLog == LogInit /\ MainOff /\ WrapOff /\ HdrOff

SpecLog == InitLog /\ [][LogNext]_vars

(***************************************************************************)
(* The claims.                                                             *)
(***************************************************************************)
Returned == pc \in {"report", "done"}
LastRunSucceeded == result.returncode = 0 /\ result.exists

C1_State ==
    pandocOnPath =>
        /\ Len(invocations) <= Len(font_pairs) + 1
        /\ \A k \in 1..Len(invocations) :
               invocations[k] = IF k <= Len(font_pairs) THEN font_pairs[k] ELSE NoFonts
        /\ (pc = "fonts" /\ invocations # <<>>) => ~LastRunSucceeded
        /\ pc = "fallback" => (Len(invocations) = Len(font_pairs) /\ ~LastRunSucceeded)
        /\ Returned =>
               \/ /\ Len(invocations) \in 1..Len(font_pairs)
                  /\ LastRunSucceeded
                  /\ rc = 0
               \/ /\ Len(invocations) = Len(font_pairs) + 1
                  /\ rc = result.returncode

C1_Step == Returned => (invocations' = invocations /\ rc' = rc)

\* C1: with the converter found, the runs use the font pairs in list order;
\* the loop goes on only after a run that failed (non-zero code or no output
\* file) and returns 0 at the first run with code 0 and the output file
\* present; after eight failures exactly one run without font overrides
\* follows and its code is returned, whatever it is; nothing runs after the
\* return.
C1_FontFallback == [](C1_State) /\ [][C1_Step]_vars

C1_Witness ==
    /\ pc = "done" /\ pandocOnPath
    /\ Len(invocations) = Len(font_pairs) + 1
    /\ result.returncode = 0 /\ ~result.exists /\ rc = 0

\* C2: with the converter absent the driver returns 127, a status no run of
\* the converter is behind, at once: the font loop and the fallback are
\* never entered and no converter run is made.
C2_ConverterAbsent ==
    ~pandocOnPath =>
        /\ invocations = <<>>
        /\ pc \notin {"fonts", "fallback"}
        /\ Returned => (rc = 127 /\ rc # 0 /\ result = NoRun)

C2_Witness == pc = "done" /\ ~pandocOnPath /\ rc = 127 /\ temp_md # NoFile

\* C3: for every block ordinal whose diagram<i>.png was on disk before the
\* run, process_uml writes no sidecar source, launches no renderer and
\* reports success with the image path.
C3_SkipExisting ==
    \A i \in 1..Len(results) :
        i \in preexisting =>
            /\ pumlFiles[i] = NoFile
            /\ i \notin launched
            /\ \/ results[i] = Pending
               \/ results[i] = [i |-> i, success |-> TRUE, info |-> png_file(i),
                                raised |-> FALSE]

C3_Witness ==
    /\ pc = "done"
    /\ \E i, j \in 1..Len(results) :
           /\ i \in preexisting /\ results[i].success
           /\ j \in launched /\ pumlFiles[j] # NoFile

ErrorTexts == {Strip(e) : e \in Stderrs} \cup ExcTexts

C4_Results ==
    /\ Len(results) = total
    /\ \A i \in 1..total :
           /\ results[i].i = i
           /\ \/ results[i].success /\ results[i].info = png_file(i)
              \/ ~results[i].success /\ results[i].info \in ErrorTexts

\* C4: whichever tasks fail by a non-zero renderer exit or by an exception,
\* the run never aborts and the pool stage can always take a step (a task
\* runs or map returns); once the pool has joined there is one result per
\* block, in ordinal order, a success with the image path or a failure with
\* the error text; and at the end the document has been rewritten from
\* those results, page-broken, escaped and saved, and the conversion driver
\* has returned.
C4_FailuresIsolated ==
    /\ pc # "aborted"
    /\ pc = "pool" => ENABLED PoolStep
    /\ pc \in {"rewrite", "pagebreaks", "save", "which", "fonts", "fallback", "report", "done"}
           => C4_Results
    /\ pc = "done" =>
           /\ md_text = apply_page_breaks(RewriteFrom(md_file, results, blocks, 1))
           /\ temp_md = escape_unescaped_dollars(md_text)
           /\ rc # -1

C4_Witness ==
    /\ pc = "done"
    /\ \E i, k \in 1..Len(results) :
           /\ ~results[i].success /\ i \in launched
           /\ results[k].success /\ k \in launched
    /\ Contains(S_fail_open, temp_md) /\ Contains(S_img_open, temp_md)

\* the number of places where pat occurs in s
Occurrences(pat, s) == Cardinality({p \in 1..Len(s) : StartsWithAt(pat, s, p)})

\* C5: after the rewrite the document holds exactly one replacement per
\* located block, an image reference captioned "Diagram i" for a block that
\* rendered and a bold notice "Diagram i failed to generate" for one that
\* failed, and none of the original block texts remains.
C5_OneReplacementPerBlock ==
    pc = "pagebreaks" =>
        /\ Occurrences(S_img_open, md_text) + Occurrences(S_fail_open, md_text) = total
        /\ \A i \in 1..total :
               /\ results[i].success =>
                      Occurrences(S_img_open \o Str(i) \o S_img_mid, md_text) = 1
               /\ ~results[i].success =>
                      Occurrences(S_fail_open \o Str(i) \o S_fail_mid, md_text) = 1
               /\ ~Contains(blocks[i].original, md_text)

\* C6: whenever split_yaml_header detects a header, the returned header
\* followed by the returned body is the original text.
C6_SplitRoundTrip ==
    (h_pc \in {"split", "done"} /\ h_split.yaml_header # <<>>)
        => h_split.yaml_header \o h_split.body = h_text

\* the original text up to and including its closing delimiter line
HeaderRegion(text) ==
    LET lines == SplitLines(text)
        k == CHOOSE c \in 2..Len(lines) :
                 IsClosingLine(lines[c]) /\ \A h \in 2..(c - 1) : ~IsClosingLine(lines[h])
    IN  Concat(SubSeq(lines, 1, k))

HasHeader(text) ==
    /\ OpensHeader(text)
    /\ \E c \in 2..Len(SplitLines(text)) : IsClosingLine(SplitLines(text)[c])

\* C7: for a document that begins with a delimiter line and has a closing
\* line, the output of apply_page_breaks is the original text up to and
\* including the closing line, followed by the rest with its three-hyphen
\* lines rewritten.
C7_HeaderUntouched ==
    (h_pc = "done" /\ HasHeader(h_text)) =>
        LET region == HeaderRegion(h_text)
        IN  h_out = region \o SubPageBreaks(Slice(h_text, Len(region) + 1, Len(h_text) + 1), 1)

\* C8: ensure_wrapped applied to its own result changes nothing.
C8_WrapIdempotent == w_pc = "twice" => w_twice = w_once

C8_Witness ==
    /\ w_pc = "twice"
    /\ Contains(S_startuml, Lower(w_code)) /\ ~Contains(S_enduml, Lower(w_code))
    /\ w_once # w_code
    /\ w_twice = w_once

\* C9: the records find_uml_blocks returns are ordered by start offset and
\* their spans do not overlap pairwise.
C9_SpansDisjoint ==
    \A a, b \in 1..Len(blocks) :
        a < b => (blocks[a].span[1] <= blocks[b].span[1]
                  /\ blocks[a].span[2] <= blocks[b].span[1])

\* C10: at most one worker process at a time is between acquiring log_lock
\* and releasing it, that is inside the print-and-append section.
C10_LogMutualExclusion ==
    Cardinality({w \in DOMAIN wpc : wpc[w] \in {"print", "append", "release"}}) <= 1

=============================================================================
